---- MODULE Spec2Model ----
(***************************************************************************)
(* A model of the WebGL shape demo: the geometry module (the shapes table  *)
(* and the circle / polygon vertex generators) and the one-shot script of  *)
(* main.js (context, shaders, program, drawShape).                         *)
(*                                                                         *)
(* JavaScript numbers are IEEE-754 doubles and a Float32Array holds        *)
(* IEEE-754 singles.  Both are modelled exactly: a number is a sign, an    *)
(* integer significand of arbitrary size (a little-endian sequence of      *)
(* 15-bit limbs, since TLC's integers are 32 bits wide) and a binary       *)
(* exponent; every arithmetic operator computes the exact result           *)
(* and rounds it to nearest-even at 53 bits (24 bits for Float32Array).    *)
(* Magnitudes stay far inside the normal range of both formats, so         *)
(* subnormals and overflow do not arise; the sign of zero is not kept.     *)
(***************************************************************************)
EXTENDS Integers, Sequences, FiniteSets, TLC

\* ------------------------------------------------------------------------
\* Natural numbers of arbitrary size: little-endian limbs, no high zero limb.

Limb == 2^15

RECURSIVE BNorm(_)
BNorm(a) ==
    IF a = <<>> THEN <<>>
    ELSE IF a[Len(a)] = 0 THEN BNorm(SubSeq(a, 1, Len(a) - 1)) ELSE a

RECURSIVE BAddC(_, _, _)
BAddC(a, b, c) ==
    IF a = <<>> /\ b = <<>> THEN (IF c = 0 THEN <<>> ELSE <<c>>)
    ELSE LET x == IF a = <<>> THEN 0 ELSE Head(a)
             y == IF b = <<>> THEN 0 ELSE Head(b)
             t == x + y + c
         IN  <<t % Limb>> \o BAddC(IF a = <<>> THEN <<>> ELSE Tail(a),
                                   IF b = <<>> THEN <<>> ELSE Tail(b),
                                   t \div Limb)

BAdd(a, b) == BAddC(a, b, 0)

\* a - b for a >= b
RECURSIVE BSubC(_, _, _)
BSubC(a, b, c) ==
    IF a = <<>> THEN <<>>
    ELSE LET y == IF b = <<>> THEN 0 ELSE Head(b)
             t == Head(a) - y - c
         IN  <<t % Limb>> \o BSubC(Tail(a),
                                   IF b = <<>> THEN <<>> ELSE Tail(b),
                                   IF t < 0 THEN 1 ELSE 0)

BSub(a, b) == BNorm(BSubC(a, b, 0))

\* -1, 0, 1 as a < b, a = b, a > b (both without high zero limbs)
RECURSIVE BCmpFrom(_, _, _)
BCmpFrom(a, b, i) ==
    IF i = 0 THEN 0
    ELSE IF a[i] < b[i] THEN -1
    ELSE IF a[i] > b[i] THEN 1
    ELSE BCmpFrom(a, b, i - 1)

BCmp(a, b) ==
    IF Len(a) < Len(b) THEN -1
    ELSE IF Len(a) > Len(b) THEN 1
    ELSE BCmpFrom(a, b, Len(a))

\* a * k + c for a limb-sized k
RECURSIVE BMulSmallC(_, _, _)
BMulSmallC(a, k, c) ==
    IF a = <<>> THEN (IF c = 0 THEN <<>> ELSE <<c>>)
    ELSE LET t == Head(a) * k + c
         IN  <<t % Limb>> \o BMulSmallC(Tail(a), k, t \div Limb)

BMulSmall(a, k) == BNorm(BMulSmallC(a, k, 0))

RECURSIVE BMul(_, _)
BMul(a, b) ==
    IF a = <<>> \/ b = <<>> THEN <<>>
    ELSE BNorm(BAdd(BMulSmall(a, Head(b)), <<0>> \o BMul(a, Tail(b))))

\* quotient and remainder of limbs 1..i of a, with r carried in from above,
\* by a limb-sized k > 0
RECURSIVE BDivRec(_, _, _, _)
BDivRec(a, i, k, r) ==
    IF i = 0 THEN [q |-> <<>>, r |-> r]
    ELSE LET cur  == r * Limb + a[i]
             rest == BDivRec(a, i - 1, k, cur % k)
         IN  [q |-> rest.q \o <<cur \div k>>, r |-> rest.r]

BDivSmall(a, k) ==
    LET d == BDivRec(a, Len(a), k, 0) IN [q |-> BNorm(d.q), r |-> d.r]

Zeros(n) == [i \in 1..n |-> 0]

BShl(a, n) ==
    IF a = <<>> THEN <<>>
    ELSE Zeros(n \div 15) \o BMulSmall(a, 2^(n % 15))

BShr(a, n) ==
    IF Len(a) <= n \div 15 THEN <<>>
    ELSE BDivSmall(SubSeq(a, n \div 15 + 1, Len(a)), 2^(n % 15)).q

BitLen(a) ==
    IF a = <<>> THEN 0
    ELSE 15 * (Len(a) - 1)
         + (CHOOSE b \in 1..15 : 2^(b-1) <= a[Len(a)] /\ a[Len(a)] < 2^b)

\* the number of low zero bits of a > 0
RECURSIVE BTrailingZeros(_)
BTrailingZeros(a) ==
    IF Head(a) = 0 THEN 15 + BTrailingZeros(Tail(a))
    ELSE CHOOSE t \in 0..(15 - 1) :
            Head(a) % 2^t = 0 /\ Head(a) % 2^(t+1) # 0

BFromNat(n) == BNorm(<<n % Limb, n \div Limb>>)

\* ------------------------------------------------------------------------
\* IEEE-754 values: (-1)^s * m * 2^e with m odd, or zero, NaN, +-Infinity.

NaN == [k |-> "nan", s |-> 0, m |-> <<>>, e |-> 0]
Inf(s) == [k |-> "inf", s |-> s, m |-> <<>>, e |-> 0]
Zero == [k |-> "num", s |-> 0, m |-> <<>>, e |-> 0]

Canon(s, m, e) ==
    IF m = <<>> THEN Zero
    ELSE LET t == BTrailingZeros(m)
         IN  [k |-> "num", s |-> s, m |-> BShr(m, t), e |-> e + t]

\* round-to-nearest, ties-to-even, of (-1)^s * m * 2^e to p significant bits
RoundTo(p, s, m, e) ==
    LET L == BitLen(m) IN
    IF L <= p THEN Canon(s, m, e)
    ELSE LET d    == L - p
             q    == BShr(m, d)
             rem  == BSub(m, BShl(q, d))
             c    == BCmp(rem, BShl(<<1>>, d - 1))
             up   == c = 1 \/ (c = 0 /\ q[1] % 2 = 1)
         IN  Canon(s, IF up THEN BAdd(q, <<1>>) ELSE q, e + d)

DoubleBits == 53
SingleBits == 24

IsZero(x) == x.k = "num" /\ x.m = <<>>

FromInt(i) == IF i < 0 THEN Canon(1, BFromNat(-i), 0) ELSE Canon(0, BFromNat(i), 0)

FNeg(x) == IF x.k = "nan" \/ IsZero(x) THEN x ELSE [x EXCEPT !.s = 1 - x.s]

\* the exact sum of two finite values, as <<sign, significand, exponent>>
ExactSum(x, y) ==
    LET e  == IF x.e < y.e THEN x.e ELSE y.e
        a  == BShl(x.m, x.e - e)
        b  == BShl(y.m, y.e - e)
        c  == BCmp(a, b)
    IN  IF x.s = y.s THEN <<x.s, BAdd(a, b), e>>
        ELSE IF c = 1 THEN <<x.s, BSub(a, b), e>>
        ELSE IF c = -1 THEN <<y.s, BSub(b, a), e>>
        ELSE <<0, <<>>, 0>>

\* x + y in double precision
FAdd(x, y) ==
    IF x.k = "nan" \/ y.k = "nan" THEN NaN
    ELSE IF x.k = "inf" THEN (IF y.k = "inf" /\ y.s # x.s THEN NaN ELSE x)
    ELSE IF y.k = "inf" THEN y
    ELSE LET t == ExactSum(x, y) IN RoundTo(DoubleBits, t[1], t[2], t[3])

\* x * y in double precision
FMul(x, y) ==
    IF x.k = "nan" \/ y.k = "nan" THEN NaN
    ELSE IF x.k = "inf" \/ y.k = "inf"
         THEN (IF IsZero(x) \/ IsZero(y) THEN NaN ELSE Inf((x.s + y.s) % 2))
    ELSE RoundTo(DoubleBits, (x.s + y.s) % 2, BMul(x.m, y.m), x.e + y.e)

\* x / y in double precision, for a finite x and a finite y whose odd
\* significand fits one limb (every integer below 2^15 does).  The quotient
\* is taken to at least 60 bits and a sticky bit records a remainder, so the
\* single rounding is the correctly rounded quotient.
FDiv(x, y) ==
    IF x.k = "nan" \/ y.k = "nan" THEN NaN
    ELSE IF IsZero(y) THEN (IF IsZero(x) THEN NaN ELSE Inf(x.s))
    ELSE IF IsZero(x) THEN Zero
    ELSE LET sh == 5 * 15
             d  == BDivSmall(BShl(x.m, sh), y.m[1])
             q  == IF d.r = 0 THEN BShl(d.q, 1) ELSE BAdd(BShl(d.q, 1), <<1>>)
         IN  RoundTo(DoubleBits, (x.s + y.s) % 2, q, x.e - y.e - sh - 1)

\* the conversion new Float32Array(...) applies to each element
ToFloat32(x) == IF x.k = "num" THEN RoundTo(SingleBits, x.s, x.m, x.e) ELSE x

\* ------------------------------------------------------------------------
\* The geometry module.

\* Math.PI, the double nearest to pi: 884279719003555 * 2^-48
Math_PI == [k |-> "num", s |-> 0, m |-> <<1443, 21777, 4349, 25>>, e |-> -48]

\* Math.cos and Math.sin belong to the host's math library.  They are given
\* here by value: one row <<x, cos x, sin x>> per double x the generators can
\* pass within the model's bounds (x = i * ((Math.PI * 2) / n) for 0 <= i <= n
\* and n in 1..10 or n = 50), each result the double nearest to the true
\* value (a host library may differ from it in the last bit; nothing below
\* depends on one).
TrigTable == <<
    <<[k |-> "num", s |-> 0, m |-> <<>>, e |-> 0],
      [k |-> "num", s |-> 0, m |-> <<1>>, e |-> 0],
      [k |-> "num", s |-> 0, m |-> <<>>, e |-> 0]>>,
    <<[k |-> "num", s |-> 0, m |-> <<5005, 4631, 11135, 64>>, e |-> -54],
      [k |-> "num", s |-> 0, m |-> <<22787, 10497, 32157, 253>>, e |-> -53],
      [k |-> "num", s |-> 0, m |-> <<2783, 13786, 349, 4>>, e |-> -50]>>,
    <<[k |-> "num", s |-> 0, m |-> <<5005, 4631, 11135, 64>>, e |-> -53],
      [k |-> "num", s |-> 0, m |-> <<247, 8657, 24532, 7>>, e |-> -48],
      [k |-> "num", s |-> 0, m |-> <<971, 31260, 10787, 127>>, e |-> -54]>>,
    <<[k |-> "num", s |-> 0, m |-> <<15015, 13893, 637, 193>>, e |-> -54],
      [k |-> "num", s |-> 0, m |-> <<22201, 20215, 16570, 59>>, e |-> -51],
      [k |-> "num", s |-> 0, m |-> <<10521, 4433, 15721, 188>>, e |-> -54]>>,
    <<[k |-> "num", s |-> 0, m |-> <<5005, 4631, 11135, 64>>, e |-> -52],
      [k |-> "num", s |-> 0, m |-> <<16473, 7427, 10961, 224>>, e |-> -53],
      [k |-> "num", s |-> 0, m |-> <<21673, 23743, 10778, 123>>, e |-> -53]>>,
    <<[k |-> "num", s |-> 0, m |-> <<26503, 30569, 869, 5>>, e |-> -48],
      [k |-> "num", s |-> 0, m |-> <<32405, 26341, 29115, 25>>, e |-> -50],
      [k |-> "num", s |-> 0, m |-> <<11567, 1141, 7750, 75>>, e |-> -52]>>,
    <<[k |-> "num", s |-> 0, m |-> <<17543, 5582, 23649, 178>>, e |-> -53],
      [k |-> "num", s |-> 0, m |-> <<20537, 17822, 3518, 196>>, e |-> -53],
      [k |-> "num", s |-> 0, m |-> <<1415, 10526, 4535, 41>>, e |-> -51]>>,
    <<[k |-> "num", s |-> 0, m |-> <<15015, 13893, 637, 193>>, e |-> -53],
      [k |-> "num", s |-> 0, m |-> <<23563, 978, 10092, 93>>, e |-> -52],
      [k |-> "num", s |-> 0, m |-> <<18437, 10888, 26575, 43>>, e |-> -51]>>,
    <<[k |-> "num", s |-> 0, m |-> <<1443, 21777, 4349, 25>>, e |-> -50],
      [k |-> "num", s |-> 0, m |-> <<15309, 19710, 633, 181>>, e |-> -53],
      [k |-> "num", s |-> 0, m |-> <<20211, 13119, 8350, 45>>, e |-> -51]>>,
    <<[k |-> "num", s |-> 0, m |-> <<16951, 16296, 19486, 112>>, e |-> -52],
      [k |-> "num", s |-> 0, m |-> <<443, 32106, 5915, 163>>, e |-> -53],
      [k |-> "num", s |-> 0, m |-> <<13813, 25435, 20502, 98>>, e |-> -52]>>,
    <<[k |-> "num", s |-> 0, m |-> <<28293, 31197, 19345, 3>>, e |-> -47],
      [k |-> "num", s |-> 0, m |-> <<30441, 25227, 26433, 79>>, e |-> -52],
      [k |-> "num", s |-> 0, m |-> <<24139, 27147, 4877, 200>>, e |-> -53]>>,
    <<[k |-> "num", s |-> 0, m |-> <<5005, 4631, 11135, 64>>, e |-> -51],
      [k |-> "num", s |-> 0, m |-> <<693, 18307, 18783, 8>>, e |-> -49],
      [k |-> "num", s |-> 0, m |-> <<5955, 32612, 2423, 108>>, e |-> -52]>>,
    <<[k |-> "num", s |-> 0, m |-> <<29541, 28762, 1352, 134>>, e |-> -52],
      [k |-> "num", s |-> 0, m |-> <<1, 0, 0, 128>>, e |-> -53],
      [k |-> "num", s |-> 0, m |-> <<9813, 26712, 27893, 110>>, e |-> -52]>>,
    <<[k |-> "num", s |-> 0, m |-> <<3069, 2228, 25054, 144>>, e |-> -52],
      [k |-> "num", s |-> 0, m |-> <<24679, 25746, 16375, 54>>, e |-> -52],
      [k |-> "num", s |-> 0, m |-> <<1379, 28270, 29783, 57>>, e |-> -51]>>,
    <<[k |-> "num", s |-> 0, m |-> <<26503, 30569, 869, 5>>, e |-> -47],
      [k |-> "num", s |-> 0, m |-> <<32405, 26341, 29115, 9>>, e |-> -50],
      [k |-> "num", s |-> 0, m |-> <<21759, 9864, 15416, 243>>, e |-> -53]>>,
    <<[k |-> "num", s |-> 0, m |-> <<30065, 13423, 7655, 44>>, e |-> -50],
      [k |-> "num", s |-> 0, m |-> <<31349, 18950, 28785, 191>>, e |-> -55],
      [k |-> "num", s |-> 0, m |-> <<2559, 22602, 15254, 251>>, e |-> -53]>>,
    <<[k |-> "num", s |-> 0, m |-> <<17543, 5582, 23649, 178>>, e |-> -52],
      [k |-> "num", s |-> 0, m |-> <<23779, 16133, 14874, 44>>, e |-> -53],
      [k |-> "num", s |-> 0, m |-> <<7191, 6402, 3630, 252>>, e |-> -53]>>,
    <<[k |-> "num", s |-> 0, m |-> <<15015, 13893, 637, 193>>, e |-> -52],
      [k |-> "num", s |-> 0, m |-> <<9437, 3568, 4874, 32>>, e |-> -54],
      [k |-> "num", s |-> 0, m |-> <<8703, 16356, 24491, 127>>, e |-> -52]>>,
    <<[k |-> "num", s |-> 0, m |-> <<1443, 21777, 4349, 25>>, e |-> -49],
      [k |-> "num", s |-> 0, m |-> <<23559, 26152, 6296, 141>>, e |-> -106],
      [k |-> "num", s |-> 0, m |-> <<1>>, e |-> 0]>>,
    <<[k |-> "num", s |-> 0, m |-> <<20421, 19813, 18094, 104>>, e |-> -51],
      [k |-> "num", s |-> 1, m |-> <<4987, 14273, 19496, 128>>, e |-> -56],
      [k |-> "num", s |-> 0, m |-> <<8703, 16356, 24491, 127>>, e |-> -52]>>,
    <<[k |-> "num", s |-> 0, m |-> <<16951, 16296, 19486, 112>>, e |-> -51],
      [k |-> "num", s |-> 1, m |-> <<1781, 29076, 16352, 1>>, e |-> -48],
      [k |-> "num", s |-> 0, m |-> <<1279, 11301, 24011, 125>>, e |-> -52]>>,
    <<[k |-> "num", s |-> 0, m |-> <<28293, 31197, 19345, 3>>, e |-> -46],
      [k |-> "num", s |-> 1, m |-> <<1163, 17292, 25564, 1>>, e |-> -48],
      [k |-> "num", s |-> 0, m |-> <<26985, 2737, 19056, 249>>, e |-> -53]>>,
    <<[k |-> "num", s |-> 0, m |-> <<13973, 26173, 2609, 15>>, e |-> -48],
      [k |-> "num", s |-> 1, m |-> <<29863, 14127, 3550, 79>>, e |-> -53],
      [k |-> "num", s |-> 0, m |-> <<17493, 7206, 31164>>, e |-> -45]>>,
    <<[k |-> "num", s |-> 0, m |-> <<26961, 25558, 8988, 241>>, e |-> -52],
      [k |-> "num", s |-> 1, m |-> <<29865, 14127, 3550, 79>>, e |-> -53],
      [k |-> "num", s |-> 0, m |-> <<21759, 9864, 15416, 243>>, e |-> -53]>>,
    <<[k |-> "num", s |-> 0, m |-> <<5005, 4631, 11135, 64>>, e |-> -50],
      [k |-> "num", s |-> 1, m |-> <<413, 4683, 32735, 217>>, e |-> -54],
      [k |-> "num", s |-> 0, m |-> <<5515, 14776, 20831, 231>>, e |-> -53]>>,
    <<[k |-> "num", s |-> 0, m |-> <<29541, 28762, 1352, 134>>, e |-> -51],
      [k |-> "num", s |-> 1, m |-> <<32767, 32767, 32767, 63>>, e |-> -52],
      [k |-> "num", s |-> 0, m |-> <<19627, 20656, 23019, 221>>, e |-> -53]>>,
    <<[k |-> "num", s |-> 0, m |-> <<9827, 17820, 5915, 34>>, e |-> -49],
      [k |-> "num", s |-> 1, m |-> <<11091, 30768, 5624, 137>>, e |-> -53],
      [k |-> "num", s |-> 0, m |-> <<11909, 32456, 4847, 216>>, e |-> -53]>>,
    <<[k |-> "num", s |-> 0, m |-> <<3069, 2228, 25054, 144>>, e |-> -51],
      [k |-> "num", s |-> 1, m |-> <<16495, 32602, 26054, 40>>, e |-> -51],
      [k |-> "num", s |-> 0, m |-> <<13813, 25435, 20502, 98>>, e |-> -52]>>,
    <<[k |-> "num", s |-> 0, m |-> <<4329, 32563, 13048, 75>>, e |-> -50],
      [k |-> "num", s |-> 1, m |-> <<20211, 13119, 8350, 45>>, e |-> -51],
      [k |-> "num", s |-> 0, m |-> <<15309, 19710, 633, 181>>, e |-> -53]>>,
    <<[k |-> "num", s |-> 0, m |-> <<32367, 31478, 26445, 152>>, e |-> -51],
      [k |-> "num", s |-> 1, m |-> <<14359, 1957, 20184, 186>>, e |-> -53],
      [k |-> "num", s |-> 0, m |-> <<4105, 21777, 20382, 87>>, e |-> -52]>>,
    <<[k |-> "num", s |-> 0, m |-> <<26503, 30569, 869, 5>>, e |-> -46],
      [k |-> "num", s |-> 1, m |-> <<29863, 14127, 3550, 207>>, e |-> -53],
      [k |-> "num", s |-> 0, m |-> <<23135, 2282, 15500, 150>>, e |-> -53]>>,
    <<[k |-> "num", s |-> 0, m |-> <<12713, 28606, 14614, 84>>, e |-> -50],
      [k |-> "num", s |-> 1, m |-> <<16473, 7427, 10961, 224>>, e |-> -53],
      [k |-> "num", s |-> 0, m |-> <<31381, 11159, 13635, 15>>, e |-> -50]>>,
    <<[k |-> "num", s |-> 0, m |-> <<19343, 28057, 25269, 10>>, e |-> -47],
      [k |-> "num", s |-> 1, m |-> <<13767, 5433, 13615, 14>>, e |-> -49],
      [k |-> "num", s |-> 0, m |-> <<11203, 6883, 4865, 222>>, e |-> -54]>>,
    <<[k |-> "num", s |-> 0, m |-> <<30065, 13423, 7655, 44>>, e |-> -49],
      [k |-> "num", s |-> 1, m |-> <<23269, 15326, 746, 238>>, e |-> -53],
      [k |-> "num", s |-> 0, m |-> <<10517, 4433, 15721, 188>>, e |-> -54]>>,
    <<[k |-> "num", s |-> 0, m |-> <<17543, 5582, 23649, 178>>, e |-> -51],
      [k |-> "num", s |-> 1, m |-> <<11547, 1188, 18393, 240>>, e |-> -53],
      [k |-> "num", s |-> 0, m |-> <<16767, 7458, 29140, 21>>, e |-> -51]>>,
    <<[k |-> "num", s |-> 0, m |-> <<18485, 17410, 32013, 184>>, e |-> -51],
      [k |-> "num", s |-> 1, m |-> <<247, 8657, 24532, 7>>, e |-> -48],
      [k |-> "num", s |-> 0, m |-> <<1943, 29752, 21575, 254>>, e |-> -55]>>,
    <<[k |-> "num", s |-> 0, m |-> <<15015, 13893, 637, 193>>, e |-> -51],
      [k |-> "num", s |-> 1, m |-> <<22787, 10497, 32157, 253>>, e |-> -53],
      [k |-> "num", s |-> 0, m |-> <<11757, 23969, 5590, 64>>, e |-> -54]>>,
    <<[k |-> "num", s |-> 0, m |-> <<1443, 21777, 4349, 25>>, e |-> -48],
      [k |-> "num", s |-> 1, m |-> <<1>>, e |-> 0],
      [k |-> "num", s |-> 0, m |-> <<23559, 26152, 6296, 141>>, e |-> -105]>>,
    <<[k |-> "num", s |-> 0, m |-> <<11545, 10376, 2029, 201>>, e |-> -51],
      [k |-> "num", s |-> 1, m |-> <<1>>, e |-> 0],
      [k |-> "num", s |-> 1, m |-> <<20989, 19691, 13235, 185>>, e |-> -104]>>,
    <<[k |-> "num", s |-> 0, m |-> <<20421, 19813, 18094, 104>>, e |-> -50],
      [k |-> "num", s |-> 1, m |-> <<22787, 10497, 32157, 253>>, e |-> -53],
      [k |-> "num", s |-> 1, m |-> <<23521, 15170, 11181, 128>>, e |-> -55]>>,
    <<[k |-> "num", s |-> 0, m |-> <<17535, 9027, 9395, 54>>, e |-> -49],
      [k |-> "num", s |-> 1, m |-> <<247, 8657, 24532, 7>>, e |-> -48],
      [k |-> "num", s |-> 1, m |-> <<975, 31260, 10787, 127>>, e |-> -54]>>,
    <<[k |-> "num", s |-> 0, m |-> <<5545, 15170, 13177, 223>>, e |-> -51],
      [k |-> "num", s |-> 1, m |-> <<2887, 8489, 4598, 60>>, e |-> -51],
      [k |-> "num", s |-> 1, m |-> <<765, 14917, 25512, 43>>, e |-> -52]>>,
    <<[k |-> "num", s |-> 0, m |-> <<16951, 16296, 19486, 112>>, e |-> -50],
      [k |-> "num", s |-> 1, m |-> <<23267, 15326, 746, 238>>, e |-> -53],
      [k |-> "num", s |-> 1, m |-> <<10527, 4433, 15721, 188>>, e |-> -54]>>,
    <<[k |-> "num", s |-> 0, m |-> <<28293, 31197, 19345, 3>>, e |-> -45],
      [k |-> "num", s |-> 1, m |-> <<23665, 21398, 21234, 230>>, e |-> -53],
      [k |-> "num", s |-> 1, m |-> <<11199, 6883, 4865, 222>>, e |-> -54]>>,
    <<[k |-> "num", s |-> 0, m |-> <<30431, 29075, 7596, 233>>, e |-> -51],
      [k |-> "num", s |-> 1, m |-> <<14347, 5024, 1370, 28>>, e |-> -50],
      [k |-> "num", s |-> 1, m |-> <<10579, 14719, 21557, 246>>, e |-> -54]>>,
    <<[k |-> "num", s |-> 0, m |-> <<13973, 26173, 2609, 15>>, e |-> -47],
      [k |-> "num", s |-> 1, m |-> <<29865, 14127, 3550, 207>>, e |-> -53],
      [k |-> "num", s |-> 1, m |-> <<23133, 2282, 15500, 150>>, e |-> -53]>>,
    <<[k |-> "num", s |-> 0, m |-> <<26961, 25558, 8988, 241>>, e |-> -51],
      [k |-> "num", s |-> 1, m |-> <<31315, 7063, 18159, 103>>, e |-> -52],
      [k |-> "num", s |-> 1, m |-> <<10963, 12359, 23012, 4>>, e |-> -48]>>,
    <<[k |-> "num", s |-> 0, m |-> <<28129, 11020, 21574, 124>>, e |-> -50],
      [k |-> "num", s |-> 1, m |-> <<23563, 978, 10092, 93>>, e |-> -52],
      [k |-> "num", s |-> 1, m |-> <<18437, 10888, 26575, 43>>, e |-> -51]>>,
    <<[k |-> "num", s |-> 0, m |-> <<7215, 10581, 21748, 125>>, e |-> -50],
      [k |-> "num", s |-> 1, m |-> <<7655, 26239, 16700, 90>>, e |-> -52],
      [k |-> "num", s |-> 1, m |-> <<20211, 13119, 8350, 45>>, e |-> -51]>>,
    <<[k |-> "num", s |-> 0, m |-> <<5005, 4631, 11135, 64>>, e |-> -49],
      [k |-> "num", s |-> 1, m |-> <<221, 32437, 19341, 81>>, e |-> -52],
      [k |-> "num", s |-> 1, m |-> <<27627, 18102, 8237, 197>>, e |-> -53]>>,
    <<[k |-> "num", s |-> 0, m |-> <<24659, 7503, 22966, 132>>, e |-> -50],
      [k |-> "num", s |-> 1, m |-> <<5543, 15384, 19196, 68>>, e |-> -52],
      [k |-> "num", s |-> 1, m |-> <<1489, 32729, 605, 27>>, e |-> -50]>>,
    <<[k |-> "num", s |-> 0, m |-> <<29541, 28762, 1352, 134>>, e |-> -50],
      [k |-> "num", s |-> 1, m |-> <<1, 0, 0, 32>>, e |-> -51],
      [k |-> "num", s |-> 1, m |-> <<2453, 14870, 23357, 27>>, e |-> -50]>>,
    <<[k |-> "num", s |-> 0, m |-> <<9827, 17820, 5915, 34>>, e |-> -48],
      [k |-> "num", s |-> 1, m |-> <<403, 4683, 32735, 217>>, e |-> -54],
      [k |-> "num", s |-> 1, m |-> <<2759, 23772, 26799, 115>>, e |-> -52]>>,
    <<[k |-> "num", s |-> 0, m |-> <<21681, 17380, 6089, 35>>, e |-> -48],
      [k |-> "num", s |-> 1, m |-> <<29865, 14127, 3550, 79>>, e |-> -53],
      [k |-> "num", s |-> 1, m |-> <<21759, 9864, 15416, 243>>, e |-> -53]>>,
    <<[k |-> "num", s |-> 0, m |-> <<10393, 24917, 31193, 17>>, e |-> -47],
      [k |-> "num", s |-> 1, m |-> <<17801, 17924, 28227, 227>>, e |-> -55],
      [k |-> "num", s |-> 1, m |-> <<26985, 2737, 19056, 249>>, e |-> -53]>>,
    <<[k |-> "num", s |-> 0, m |-> <<3069, 2228, 25054, 144>>, e |-> -50],
      [k |-> "num", s |-> 1, m |-> <<31353, 18950, 28785, 191>>, e |-> -55],
      [k |-> "num", s |-> 1, m |-> <<2559, 22602, 15254, 251>>, e |-> -53]>>,
    <<[k |-> "num", s |-> 0, m |-> <<25243, 234, 12875, 74>>, e |-> -49],
      [k |-> "num", s |-> 1, m |-> <<4973, 14273, 19496, 128>>, e |-> -56],
      [k |-> "num", s |-> 1, m |-> <<8703, 16356, 24491, 127>>, e |-> -52]>>,
    <<[k |-> "num", s |-> 0, m |-> <<4329, 32563, 13048, 75>>, e |-> -49],
      [k |-> "num", s |-> 1, m |-> <<17669, 19614, 29298, 105>>, e |-> -104],
      [k |-> "num", s |-> 1, m |-> <<1>>, e |-> 0]>>,
    <<[k |-> "num", s |-> 0, m |-> <<32367, 31478, 26445, 152>>, e |-> -50],
      [k |-> "num", s |-> 0, m |-> <<18889, 7136, 9748, 64>>, e |-> -55],
      [k |-> "num", s |-> 1, m |-> <<8703, 16356, 24491, 127>>, e |-> -52]>>,
    <<[k |-> "num", s |-> 0, m |-> <<11771, 16778, 6250, 78>>, e |-> -49],
      [k |-> "num", s |-> 0, m |-> <<23775, 16133, 14874, 44>>, e |-> -53],
      [k |-> "num", s |-> 1, m |-> <<9091, 25376, 16837, 31>>, e |-> -50]>>,
    <<[k |-> "num", s |-> 0, m |-> <<1781, 24195, 19776, 19>>, e |-> -47],
      [k |-> "num", s |-> 0, m |-> <<31371, 18950, 28785, 191>>, e |-> -55],
      [k |-> "num", s |-> 1, m |-> <<1279, 11301, 24011, 125>>, e |-> -52]>>,
    <<[k |-> "num", s |-> 0, m |-> <<26503, 30569, 869, 5>>, e |-> -45],
      [k |-> "num", s |-> 0, m |-> <<31315, 7063, 18159, 39>>, e |-> -52],
      [k |-> "num", s |-> 1, m |-> <<17493, 7206, 31164>>, e |-> -45]>>,
    <<[k |-> "num", s |-> 0, m |-> <<10777, 26203, 28533, 164>>, e |-> -50],
      [k |-> "num", s |-> 0, m |-> <<411, 4683, 32735, 217>>, e |-> -54],
      [k |-> "num", s |-> 1, m |-> <<1379, 28270, 29783, 57>>, e |-> -51]>>,
    <<[k |-> "num", s |-> 0, m |-> <<26655, 17976, 25421, 83>>, e |-> -49],
      [k |-> "num", s |-> 0, m |-> <<32765, 32767, 32767, 63>>, e |-> -52],
      [k |-> "num", s |-> 1, m |-> <<9815, 26712, 27893, 110>>, e |-> -52]>>,
    <<[k |-> "num", s |-> 0, m |-> <<12713, 28606, 14614, 84>>, e |-> -49],
      [k |-> "num", s |-> 0, m |-> <<5545, 15384, 19196, 68>>, e |-> -52],
      [k |-> "num", s |-> 1, m |-> <<11909, 32456, 4847, 216>>, e |-> -53]>>,
    <<[k |-> "num", s |-> 0, m |-> <<19343, 28057, 25269, 10>>, e |-> -46],
      [k |-> "num", s |-> 0, m |-> <<16093, 7249, 31976, 9>>, e |-> -49],
      [k |-> "num", s |-> 1, m |-> <<30611, 14978, 1219, 50>>, e |-> -51]>>,
    <<[k |-> "num", s |-> 0, m |-> <<7307, 22686, 29925, 172>>, e |-> -50],
      [k |-> "num", s |-> 0, m |-> <<223, 32437, 19341, 81>>, e |-> -52],
      [k |-> "num", s |-> 1, m |-> <<28029, 22742, 21509, 24>>, e |-> -50]>>,
    <<[k |-> "num", s |-> 0, m |-> <<10101, 21367, 30447, 175>>, e |-> -50],
      [k |-> "num", s |-> 0, m |-> <<15307, 19710, 633, 181>>, e |-> -53],
      [k |-> "num", s |-> 1, m |-> <<7655, 26239, 16700, 90>>, e |-> -52]>>,
    <<[k |-> "num", s |-> 0, m |-> <<30065, 13423, 7655, 44>>, e |-> -48],
      [k |-> "num", s |-> 0, m |-> <<14361, 1957, 20184, 186>>, e |-> -53],
      [k |-> "num", s |-> 1, m |-> <<4609, 27298, 31219, 10>>, e |-> -49]>>,
    <<[k |-> "num", s |-> 0, m |-> <<17543, 5582, 23649, 178>>, e |-> -50],
      [k |-> "num", s |-> 0, m |-> <<20535, 17822, 3518, 196>>, e |-> -53],
      [k |-> "num", s |-> 1, m |-> <<5663, 9336, 18141, 164>>, e |-> -53]>>,
    <<[k |-> "num", s |-> 0, m |-> <<9151, 12984, 7829, 45>>, e |-> -48],
      [k |-> "num", s |-> 0, m |-> <<29863, 14127, 3550, 207>>, e |-> -53],
      [k |-> "num", s |-> 1, m |-> <<10963, 12359, 23012, 4>>, e |-> -48]>>,
    <<[k |-> "num", s |-> 0, m |-> <<3837, 19169, 31317, 180>>, e |-> -50],
      [k |-> "num", s |-> 0, m |-> <<29867, 14127, 3550, 207>>, e |-> -53],
      [k |-> "num", s |-> 1, m |-> <<23129, 2282, 15500, 150>>, e |-> -53]>>,
    <<[k |-> "num", s |-> 0, m |-> <<18485, 17410, 32013, 184>>, e |-> -50],
      [k |-> "num", s |-> 0, m |-> <<16473, 7427, 10961, 224>>, e |-> -53],
      [k |-> "num", s |-> 1, m |-> <<21673, 23743, 10778, 123>>, e |-> -53]>>,
    <<[k |-> "num", s |-> 0, m |-> <<183, 24210, 16354, 94>>, e |-> -49],
      [k |-> "num", s |-> 0, m |-> <<23269, 15326, 746, 238>>, e |-> -53],
      [k |-> "num", s |-> 1, m |-> <<10519, 4433, 15721, 188>>, e |-> -54]>>,
    <<[k |-> "num", s |-> 0, m |-> <<15015, 13893, 637, 193>>, e |-> -50],
      [k |-> "num", s |-> 0, m |-> <<7905, 14880, 31368, 247>>, e |-> -53],
      [k |-> "num", s |-> 1, m |-> <<1931, 29752, 21575, 254>>, e |-> -55]>>,
    <<[k |-> "num", s |-> 0, m |-> <<7071, 21883, 5161, 6>>, e |-> -45],
      [k |-> "num", s |-> 0, m |-> <<22787, 10497, 32157, 253>>, e |-> -53],
      [k |-> "num", s |-> 1, m |-> <<23503, 15170, 11181, 128>>, e |-> -55]>>,
    <<[k |-> "num", s |-> 0, m |-> <<1443, 21777, 4349, 25>>, e |-> -47],
      [k |-> "num", s |-> 0, m |-> <<1>>, e |-> 0],
      [k |-> "num", s |-> 1, m |-> <<23559, 26152, 6296, 141>>, e |-> -104]>>,
    <<[k |-> "num", s |-> 0, m |-> <<11545, 10376, 2029, 201>>, e |-> -50],
      [k |-> "num", s |-> 0, m |-> <<1>>, e |-> 0],
      [k |-> "num", s |-> 0, m |-> <<20989, 19691, 13235, 185>>, e |-> -103]>>
>>

TrigRow(x) == TrigTable[CHOOSE j \in 1..Len(TrigTable) : TrigTable[j][1] = x]

Math_cos(x) == IF x.k # "num" THEN NaN ELSE TrigRow(x)[2]

Math_sin(x) == IF x.k # "num" THEN NaN ELSE TrigRow(x)[3]

\* new Float32Array(vertices): every element rounded to single precision
Float32Array(vertices) == [j \in 1..Len(vertices) |-> ToFloat32(vertices[j])]

\* the loop of generateCircleVertices stopping one sample early
CircleLoopGuardExclusive(i, numSegments) == i < numSegments

\* the loop condition of generateCircleVertices: i <= numSegments
CircleLoopGuard(i, numSegments) == i <= numSegments

\* one sample: the coordinates pushed for index i
SampleX(cx, radius, angleStep, i) ==
    FAdd(cx, FMul(radius, Math_cos(FMul(FromInt(i), angleStep))))

SampleY(cy, radius, angleStep, i) ==
    FAdd(cy, FMul(radius, Math_sin(FMul(FromInt(i), angleStep))))

\* the step taken over one segment too many
AngleStepOffByOne(n) == FDiv(FMul(Math_PI, FromInt(2)), FromInt(n + 1))

\* const angleStep = (Math.PI * 2) / numSegments
AngleStep(n) == FDiv(FMul(Math_PI, FromInt(2)), FromInt(n))

\* The number of times a loop `for (let i = 0; guard(i); i++)` runs its
\* body, given the set of i at which the guard holds: the first i, counting
\* from 0, at which it fails.
Iterations(holds, most) ==
    CHOOSE c \in 0..most : (\A i \in 0..(c - 1) : i \in holds) /\ c \notin holds

\* the vertices after the loop: those before it, then x, y of each pass
Pushed(vertices, cx, cy, radius, angleStep, passes) ==
    vertices \o [j \in 1..(2 * passes) |->
                    IF j % 2 = 1 THEN SampleX(cx, radius, angleStep, (j - 1) \div 2)
                                 ELSE SampleY(cy, radius, angleStep, (j - 1) \div 2)]

CircleLoop(cx, cy, radius, numSegments, angleStep, vertices) ==
    LET most  == IF numSegments < 0 THEN 1 ELSE numSegments + 2
        holds == {i \in 0..most : CircleLoopGuard(i, numSegments)}
    IN  Pushed(vertices, cx, cy, radius, angleStep, Iterations(holds, most))

generateCircleVertices(cx, cy, radius, numSegments) ==
    Float32Array(CircleLoop(cx, cy, radius, numSegments,
                            AngleStep(numSegments), <<cx, cy>>))

\* the loop of generatePolygonVertices running one sample on
PolygonLoopGuardInclusive(i, numSides) == i <= numSides

\* the loop condition of generatePolygonVertices: i < numSides
PolygonLoopGuard(i, numSides) == i < numSides

PolygonLoop(cx, cy, radius, numSides, angleStep, vertices) ==
    LET most  == IF numSides < 0 THEN 1 ELSE numSides + 2
        holds == {i \in 0..most : PolygonLoopGuard(i, numSides)}
    IN  Pushed(vertices, cx, cy, radius, angleStep, Iterations(holds, most))

generatePolygonVertices(cx, cy, radius, numSides) ==
    Float32Array(PolygonLoop(cx, cy, radius, numSides,
                             AngleStep(numSides), <<>>))

\* the numeric literals of the shapes table
Half == Canon(0, <<1>>, -1)

\* a property value: a Float32Array with its elements, a function object
\* (what Object.prototype holds), or undefined
Float32ArrayValue(data) == [type |-> "Float32Array", data |-> data]
FunctionValue == [type |-> "function", data |-> <<>>]
Undefined == [type |-> "undefined", data |-> <<>>]

\* the table with the rectangle's second triangle wound clockwise
geometryClockwise ==
    [triangle  |-> Float32ArrayValue(Float32Array(
                        <<Zero, Half,
                          FNeg(Half), FNeg(Half),
                          Half, FNeg(Half)>>)),
     rectangle |-> Float32ArrayValue(Float32Array(
                        <<FNeg(Half), Half,
                          FNeg(Half), FNeg(Half),
                          Half, FNeg(Half),
                          FNeg(Half), Half,
                          Half, Half,
                          Half, FNeg(Half)>>)),
     circle    |-> Float32ArrayValue(generateCircleVertices(Zero, Zero, Half, 50)),
     line      |-> Float32ArrayValue(Float32Array(
                        <<FNeg(Half), Zero,
                          Half, Zero>>)),
     polygon   |-> Float32ArrayValue(generatePolygonVertices(Zero, Zero, Half, 6))]

\* export const shapes = { ... }
geometry ==
    [triangle  |-> Float32ArrayValue(Float32Array(
                        <<Zero, Half,
                          FNeg(Half), FNeg(Half),
                          Half, FNeg(Half)>>)),
     rectangle |-> Float32ArrayValue(Float32Array(
                        <<FNeg(Half), Half,
                          FNeg(Half), FNeg(Half),
                          Half, FNeg(Half),
                          FNeg(Half), Half,
                          Half, FNeg(Half),
                          Half, Half>>)),
     circle    |-> Float32ArrayValue(generateCircleVertices(Zero, Zero, Half, 50)),
     line      |-> Float32ArrayValue(Float32Array(
                        <<FNeg(Half), Zero,
                          Half, Zero>>)),
     polygon   |-> Float32ArrayValue(generatePolygonVertices(Zero, Zero, Half, 6))]

\* ------------------------------------------------------------------------
\* State.

VARIABLES
    pc,             \* the script's position, "idle" when only a generator runs
    shapes,         \* the binding imported from ./geometry
    shapeName,      \* the name the script passes to drawShape
    glCalls,        \* the calls the context has executed, in order
    console,        \* the messages given to console.error, in order
    vertexShader,   \* main.js's consts: "unset", "null" or a handle
    fragmentShader,
    program,
    attribLocation, \* where the linker put aPosition
    error,          \* the uncaught exception that ended the script, or "none"
    gpc,            \* a generator call: "ready", "returned" ("idle" in the script)
    call,           \* its arguments [cx, cy, radius, n]
    called,         \* which generator was called
    result          \* the Float32Array it returned

vars == <<pc, shapes, shapeName, glCalls, console, vertexShader, fragmentShader,
          program, attribLocation, error, gpc, call, called, result>>

scriptVars == <<pc, shapes, shapeName, glCalls, console, vertexShader,
                fragmentShader, program, attribLocation, error>>

genVars == <<gpc, call, called, result>>

GL(op, args) == [op |-> op, args |-> args]
\* ------------------------------------------------------------------------
\* main.js, the script.

\* shapes before the import has been evaluated
Unloaded == [n \in {} |-> Undefined]

\* what every object literal inherits from Object.prototype (a few of its
\* members; each is a function object)
ObjectPrototype == {"constructor", "toString", "valueOf", "hasOwnProperty"}

\* obj[name]: the own property, else the inherited one, else undefined
Get(obj, name) ==
    IF name \in DOMAIN obj THEN obj[name]
    ELSE IF name \in ObjectPrototype THEN FunctionValue
    ELSE Undefined

\* !value
Not(value) == value.type = "undefined"

\* The names the script may be edited to pass to drawShape ("Change the
\* shapeName to draw different shapes"): the five of the table, one that is
\* nowhere, one that only Object.prototype has.
ShapeNames == DOMAIN geometry \cup {"star", "constructor"}

\* import { shapes } from "./geometry"
ImportGeometry ==
    /\ pc = "import"
    /\ shapes' = geometry
    /\ pc' = "initializeWebGL"
    /\ UNCHANGED <<shapeName, glCalls, console, vertexShader, fragmentShader,
                   program, attribLocation, error>>
    /\ UNCHANGED genVars

\* const canvas = document.getElementById("glCanvas");
\* const gl = initializeWebGL(canvas);
\* The page may lack the canvas (getElementById gives null and
\* canvas.getContext throws a TypeError) and the browser may lack WebGL.
initializeWebGL ==
    /\ pc = "initializeWebGL"
    /\ \E canvasFound \in BOOLEAN, supported \in BOOLEAN :
          IF ~canvasFound
          THEN /\ error' = "TypeError: canvas is null"
               /\ pc' = "threw"
               /\ console' = console
          ELSE IF ~supported
          THEN /\ console' = Append(console, "WebGL not supported in this browser!")
               /\ error' = "Error: WebGL not supported"
               /\ pc' = "threw"
          ELSE /\ pc' = "compileVertexShader"
               /\ UNCHANGED <<console, error>>
    /\ UNCHANGED <<shapes, shapeName, glCalls, vertexShader, fragmentShader,
                   program, attribLocation>>
    /\ UNCHANGED genVars

\* the calls of compileShader(gl, source, type) on the shader it creates
compileShaderCalls(type, handle, compiled) ==
    <<GL("createShader", <<type>>),
      GL("shaderSource", <<handle>>),
      GL("compileShader", <<handle>>),
      GL("getShaderParameter", <<handle, "COMPILE_STATUS">>)>>
    \o IF compiled THEN <<>>
       ELSE <<GL("getShaderInfoLog", <<handle>>),
              GL("deleteShader", <<handle>>)>>

\* what compileShader returns
compileShader(handle, compiled) == IF compiled THEN handle ELSE "null"

\* const vertexShader = compileShader(gl, vertexShaderSource, gl.VERTEX_SHADER);
CompileVertexShader ==
    /\ pc = "compileVertexShader"
    /\ \E compiled \in BOOLEAN :
          /\ glCalls' = glCalls \o compileShaderCalls("VERTEX_SHADER", "vertexShader", compiled)
          /\ console' = IF compiled THEN console
                        ELSE Append(console, "Error compiling shader:")
          /\ vertexShader' = compileShader("vertexShader", compiled)
    /\ pc' = "compileFragmentShader"
    /\ UNCHANGED <<shapes, shapeName, fragmentShader, program, attribLocation, error>>
    /\ UNCHANGED genVars

\* const fragmentShader = compileShader(gl, fragmentShaderSource, gl.FRAGMENT_SHADER);
CompileFragmentShader ==
    /\ pc = "compileFragmentShader"
    /\ \E compiled \in BOOLEAN :
          /\ glCalls' = glCalls \o compileShaderCalls("FRAGMENT_SHADER", "fragmentShader", compiled)
          /\ console' = IF compiled THEN console
                        ELSE Append(console, "Error compiling shader:")
          /\ fragmentShader' = compileShader("fragmentShader", compiled)
    /\ pc' = "createWebGLProgram"
    /\ UNCHANGED <<shapes, shapeName, vertexShader, program, attribLocation, error>>
    /\ UNCHANGED genVars

\* The locations the linker may give the one active attribute, aPosition:
\* no bindAttribLocation is called, so any index the context supports.
MaxAttribLocation == 1

AttribLocations == 0..MaxAttribLocation

\* const program = createWebGLProgram(gl, vertexShader, fragmentShader);
\* attachShader takes a WebGLShader, not null: given the null of a failed
\* compile, the binding throws a TypeError before the context is touched.
createWebGLProgram ==
    /\ pc = "createWebGLProgram"
    /\ IF vertexShader = "null"
       THEN /\ glCalls' = Append(glCalls, GL("createProgram", <<>>))
            /\ error' = "TypeError: attachShader: parameter 2 is not of type 'WebGLShader'"
            /\ pc' = "threw"
            /\ UNCHANGED <<console, program, attribLocation>>
       ELSE IF fragmentShader = "null"
       THEN /\ glCalls' = glCalls \o <<GL("createProgram", <<>>),
                                       GL("attachShader", <<"program", vertexShader>>)>>
            /\ error' = "TypeError: attachShader: parameter 2 is not of type 'WebGLShader'"
            /\ pc' = "threw"
            /\ UNCHANGED <<console, program, attribLocation>>
       ELSE \E linked \in BOOLEAN, loc \in AttribLocations :
            LET calls == <<GL("createProgram", <<>>),
                           GL("attachShader", <<"program", vertexShader>>),
                           GL("attachShader", <<"program", fragmentShader>>),
                           GL("linkProgram", <<"program">>),
                           GL("getProgramParameter", <<"program", "LINK_STATUS">>)>>
            IN  IF linked
                THEN /\ glCalls' = glCalls \o calls
                     /\ program' = "program"
                     /\ attribLocation' = loc
                     /\ pc' = "useProgram"
                     /\ UNCHANGED <<console, error>>
                ELSE /\ glCalls' = glCalls \o calls
                                   \o <<GL("getProgramInfoLog", <<"program">>),
                                        GL("deleteProgram", <<"program">>)>>
                     /\ console' = Append(console, "Error linking program:")
                     /\ error' = "Error: Failed to link program"
                     /\ pc' = "threw"
                     /\ UNCHANGED <<program, attribLocation>>
    /\ UNCHANGED <<shapes, shapeName, vertexShader, fragmentShader>>
    /\ UNCHANGED genVars

\* gl.useProgram(program);
UseProgram ==
    /\ pc = "useProgram"
    /\ glCalls' = Append(glCalls, GL("useProgram", <<program>>))
    /\ pc' = "drawShape"
    /\ UNCHANGED <<shapes, shapeName, console, vertexShader, fragmentShader,
                   program, attribLocation, error>>
    /\ UNCHANGED genVars

\* The identifier `location` of drawShape is declared nowhere in main.js: it
\* resolves to the global window.location, which every host that has the
\* `document` of line 8 also has.  Passed where a GLuint is expected, the
\* Location object is converted with ToNumber (its href string: NaN) and
\* then to an unsigned integer: 0.
location == 0

\* the switch with the circle drawn as separate triangles
DrawModeNoFan(name) ==
    CASE name \in {"triangle", "rectangle", "circle"} -> "TRIANGLES"
      [] name = "line"                                -> "LINES"
      [] name = "polygon"                             -> "LINE_LOOP"
      [] OTHER                                        -> "none"

\* the mode the switch of drawShape selects, "none" in its default branch
DrawMode(name) ==
    CASE name \in {"triangle", "rectangle"} -> "TRIANGLES"
      [] name = "circle"                    -> "TRIANGLE_FAN"
      [] name = "line"                      -> "LINES"
      [] name = "polygon"                   -> "LINE_LOOP"
      [] OTHER                              -> "none"

\* what bufferData uploads: the elements of a typed array; any other object
\* selects the overload that takes a size, converted from NaN: an empty store
BufferPayload(value) == IF value.type = "Float32Array" THEN value.data ELSE <<>>

\* shapeVertices.length / 2
VertexCount(shapeVertices) == Len(shapeVertices.data) \div 2

\* drawShape clearing the canvas after the draw instead of before it
drawShapeCallsClearLast(name, shapeVertices, prog, aPositionLocation) ==
    <<GL("createBuffer", <<"buffer">>),
      GL("bindBuffer", <<"ARRAY_BUFFER", "buffer">>),
      GL("bufferData", <<"ARRAY_BUFFER", BufferPayload(shapeVertices), "STATIC_DRAW">>),
      GL("getAttribLocation", <<prog, "aPosition", aPositionLocation>>),
      GL("enableVertexAttribArray", <<location>>),
      GL("vertexAttribPointer", <<location, 2, "FLOAT", FALSE, 0, 0>>)>>
    \o (IF DrawMode(name) = "none" THEN <<>>
        ELSE <<GL("drawArrays", <<DrawMode(name), 0, VertexCount(shapeVertices)>>)>>)
    \o <<GL("clearColor", <<0, 0, 0, 1>>),
         GL("clear", <<"COLOR_BUFFER_BIT">>)>>

\* the calls of drawShape once the lookup has succeeded, in order
drawShapeCalls(name, shapeVertices, prog, aPositionLocation) ==
    <<GL("createBuffer", <<"buffer">>),
      GL("bindBuffer", <<"ARRAY_BUFFER", "buffer">>),
      GL("bufferData", <<"ARRAY_BUFFER", BufferPayload(shapeVertices), "STATIC_DRAW">>),
      GL("getAttribLocation", <<prog, "aPosition", aPositionLocation>>),
      GL("enableVertexAttribArray", <<location>>),
      GL("vertexAttribPointer", <<location, 2, "FLOAT", FALSE, 0, 0>>),
      GL("clearColor", <<0, 0, 0, 1>>),
      GL("clear", <<"COLOR_BUFFER_BIT">>)>>
    \o IF DrawMode(name) = "none" THEN <<>>
       ELSE <<GL("drawArrays", <<DrawMode(name), 0, VertexCount(shapeVertices)>>)>>

\* drawShape(gl, shapeName);
drawShape ==
    /\ pc = "drawShape"
    /\ LET shapeVertices == Get(shapes, shapeName) IN
       IF Not(shapeVertices)
       THEN /\ console' = Append(console, "Shape not found!")
            /\ glCalls' = glCalls
       ELSE /\ glCalls' = glCalls \o drawShapeCalls(shapeName, shapeVertices,
                                                    program, attribLocation)
            /\ console' = IF DrawMode(shapeName) = "none"
                          THEN Append(console, "Unsupported shape type")
                          ELSE console
    /\ pc' = "done"
    /\ UNCHANGED <<shapes, shapeName, vertexShader, fragmentShader, program,
                   attribLocation, error>>
    /\ UNCHANGED genVars

Init ==
    /\ pc = "import"
    /\ shapes = Unloaded
    /\ shapeName \in ShapeNames
    /\ glCalls = <<>>
    /\ console = <<>>
    /\ vertexShader = "unset"
    /\ fragmentShader = "unset"
    /\ program = "unset"
    /\ attribLocation = 0
    /\ error = "none"
    /\ gpc = "idle"
    /\ call = [cx |-> Zero, cy |-> Zero, radius |-> Zero, n |-> 0]
    /\ called = "none"
    /\ result = <<>>

Next ==
    \/ ImportGeometry
    \/ initializeWebGL
    \/ CompileVertexShader
    \/ CompileFragmentShader
    \/ createWebGLProgram
    \/ UseProgram
    \/ drawShape

Spec == Init /\ [][Next]_vars
\* ------------------------------------------------------------------------
\* The generators called on their own, with arguments from bounded sets.

MaxSegments == 7

Quarter == Canon(0, <<1>>, -2)
ThreeQuarters == Canon(0, <<3>>, -2)
One == Canon(0, <<1>>, 0)

\* centers and radii, all representable in single precision (a Point2D is a
\* pair of 32-bit floats); the radii include a zero and a negative one, the
\* counts run from -1 through 0, 1 and 2 to MaxSegments
CenterXs == {Zero, Half, FNeg(Quarter)}
CenterYs == {Zero, FNeg(Half)}
Radii == {Zero, Half, ThreeQuarters, One, FNeg(Half)}
SegmentCounts == (0 - 1)..MaxSegments

GenInit ==
    /\ gpc = "ready"
    /\ call \in [cx : CenterXs, cy : CenterYs, radius : Radii, n : SegmentCounts]
    /\ called = "none"
    /\ result = <<>>
    /\ pc = "idle"
    /\ shapes = Unloaded
    /\ shapeName = "circle"
    /\ glCalls = <<>>
    /\ console = <<>>
    /\ vertexShader = "unset"
    /\ fragmentShader = "unset"
    /\ program = "unset"
    /\ attribLocation = 0
    /\ error = "none"

CallCircle ==
    /\ gpc = "ready"
    /\ result' = generateCircleVertices(call.cx, call.cy, call.radius, call.n)
    /\ called' = "circle"
    /\ gpc' = "returned"
    /\ UNCHANGED call
    /\ UNCHANGED scriptVars

CallPolygon ==
    /\ gpc = "ready"
    /\ result' = generatePolygonVertices(call.cx, call.cy, call.radius, call.n)
    /\ called' = "polygon"
    /\ gpc' = "returned"
    /\ UNCHANGED call
    /\ UNCHANGED scriptVars

GenNext == CallCircle \/ CallPolygon

GenSpec == GenInit /\ [][GenNext]_vars
\* ------------------------------------------------------------------------
\* Properties of the generators (checked under GenSpec).

\* point j (from 0) of a flat coordinate sequence
Point(seq, j) == <<seq[2 * j + 1], seq[2 * j + 2]>>

IsPositive(x) == x.k = "num" /\ x.m # <<>> /\ x.s = 0

\* the parameters the contract admits: n >= 3 and r > 0
ValidParams(c) == c.n >= 3 /\ IsPositive(c.radius)

\* the sample for index i as the contract states it,
\* (cx + r cos(theta_i), cy + r sin(theta_i)) with theta_i = i * (2 pi / n),
\* stored in single precision
ContractSample(c, i) ==
    LET theta == FMul(FromInt(i), FDiv(FMul(Math_PI, FromInt(2)), FromInt(c.n)))
    IN  <<ToFloat32(FAdd(c.cx, FMul(c.radius, Math_cos(theta)))),
          ToFloat32(FAdd(c.cy, FMul(c.radius, Math_sin(theta))))>>

CircleReturned == gpc = "returned" /\ called = "circle"
PolygonReturned == gpc = "returned" /\ called = "polygon"

\* C1: for n >= 3 and r > 0, generateCircleVertices returns exactly n + 2
\* points (2 * (n + 2) coordinates): point 0 is the center, and points
\* 1 .. n + 1 are, in order, the samples for i = 0 .. n.
C1_CircleLayout ==
    (CircleReturned /\ ValidParams(call)) =>
        /\ Len(result) = 2 * (call.n + 2)
        /\ Point(result, 0) = <<call.cx, call.cy>>
        /\ \A i \in 0..call.n : Point(result, i + 1) = ContractSample(call, i)

C1_Witness ==
    /\ CircleReturned
    /\ call.n = 5
    /\ call.radius = ThreeQuarters
    /\ call.cx = Half
    /\ Len(result) = 14

\* C2: for n >= 3 and r > 0, generatePolygonVertices returns exactly n
\* points, the samples for i = 0 .. n - 1 in order; none of them is the
\* center and no two of them coincide (no closing duplicate).
C2_PolygonLayout ==
    (PolygonReturned /\ ValidParams(call)) =>
        /\ Len(result) = 2 * call.n
        /\ \A i \in 0..(call.n - 1) :
              /\ Point(result, i) = ContractSample(call, i)
              /\ Point(result, i) # <<call.cx, call.cy>>
        /\ \A i, j \in 0..(call.n - 1) :
              i # j => Point(result, i) # Point(result, j)

C2_Witness ==
    /\ PolygonReturned
    /\ call.n = 6
    /\ call.radius = Half
    /\ Len(result) = 12

\* C3: a call with a segment / side count below 3 or a non-positive radius
\* is rejected: it returns no vertex sequence.
C3_InvalidParameterRejected ==
    ~ValidParams(call) => gpc # "returned"

\* what such a call returns instead: a polygon of 2 sides is 2 points, one
\* of 0 sides is empty, a circle of 0 segments holds NaN
C3_DegenerateOutputs ==
    /\ (PolygonReturned /\ call.n = 2) => Len(result) = 4
    /\ (PolygonReturned /\ call.n <= 0) => result = <<>>
    /\ (CircleReturned /\ call.n = 0) => Point(result, 1) = <<NaN, NaN>>
    /\ (CircleReturned /\ IsZero(call.radius) /\ call.n >= 1) =>
           \A i \in 1..(call.n + 1) : Point(result, i) = <<call.cx, call.cy>>

\* |a - b| <= 10^-6 * (|c| + r), exactly, for finite a, b, c, r
WithinTolerance(a, b, c, r) ==
    LET d  == ExactSum(a, FNeg(b))
        sc == ExactSum([c EXCEPT !.s = 0], [r EXCEPT !.s = 0])
        e  == IF d[3] < sc[3] THEN d[3] ELSE sc[3]
    IN  BCmp(BMul(BShl(d[2], d[3] - e), BFromNat(1000000)),
             BShl(sc[2], sc[3] - e)) <= 0

\* C10 as stated: the last sample of the circle (i = n) equals the first
\* (i = 0) exactly, and generateCircleVertices(0, 0, 1, 4) is exactly
\* (0,0), (1,0), (0,1), (-1,0), (0,-1), (1,0).
C10_SeamExact ==
    (CircleReturned /\ ValidParams(call)) =>
        /\ Point(result, 1) = Point(result, call.n + 1)
        /\ (call = [cx |-> Zero, cy |-> Zero, radius |-> One, n |-> 4]) =>
              result = <<Zero, Zero, One, Zero, Zero, One,
                         FNeg(One), Zero, Zero, FNeg(One), One, Zero>>

\* C10, amended: the last sample equals the first within the tolerance
\* 10^-6 * (|center coordinate| + r) in each coordinate, and
\* generateCircleVertices(0, 0, 1, 4) is within 10^-6 per coordinate of
\* (0,0), (1,0), (0,1), (-1,0), (0,-1), (1,0).
C10_SeamWithinTolerance ==
    (CircleReturned /\ ValidParams(call)) =>
        /\ Len(result) = 2 * (call.n + 2)
        /\ WithinTolerance(result[3], result[2 * call.n + 3], call.cx, call.radius)
        /\ WithinTolerance(result[4], result[2 * call.n + 4], call.cy, call.radius)
        /\ (call = [cx |-> Zero, cy |-> Zero, radius |-> One, n |-> 4]) =>
              LET want == <<Zero, Zero, One, Zero, Zero, One,
                            FNeg(One), Zero, Zero, FNeg(One), One, Zero>>
              IN  \A j \in 1..12 : WithinTolerance(result[j], want[j], Zero, One)

\* the seam of the unit circle of 4 segments: the last y is not 0
C10_Witness ==
    /\ CircleReturned
    /\ call = [cx |-> Zero, cy |-> Zero, radius |-> One, n |-> 4]
    /\ result[3] = result[11]
    /\ result[4] = Zero
    /\ result[12] # Zero
\* ------------------------------------------------------------------------
\* Properties of the script (checked under Spec).

\* the positions in glCalls of the calls of one operation
Calls(op) == {i \in 1..Len(glCalls) : glCalls[i].op = op}

\* the position of the only call of an operation
TheCall(op) == CHOOSE i \in Calls(op) : TRUE

Logged(message) == \E i \in 1..Len(console) : console[i] = message

\* the script has run to its end with a name the table holds
DrewRegistered == pc = "done" /\ shapeName \in DOMAIN shapes

\* the draw mode and the number of points of each shape of the table
ModeOfShape ==
    [triangle |-> "TRIANGLES", rectangle |-> "TRIANGLES", circle |-> "TRIANGLE_FAN",
     line |-> "LINES", polygon |-> "LINE_LOOP"]

PointsOfShape ==
    [triangle |-> 3, rectangle |-> 6, circle |-> 52, line |-> 2, polygon |-> 6]

\* C4: for every name of the shapes table, drawShape issues its draw call
\* with the mode of that shape (triangle, rectangle: TRIANGLES; circle:
\* TRIANGLE_FAN; line: LINES; polygon: LINE_LOOP) and with the number of
\* points of the shape (flat length / 2); the default branch is not taken.
C4_DrawModeByShape ==
    DrewRegistered =>
        /\ Cardinality(Calls("drawArrays")) = 1
        /\ glCalls[Len(glCalls)].op = "drawArrays"
        /\ glCalls[Len(glCalls)].args =
              <<ModeOfShape[shapeName], 0, PointsOfShape[shapeName]>>
        /\ Len(shapes[shapeName].data) = 2 * PointsOfShape[shapeName]
        /\ ~Logged("Unsupported shape type")

C4_Witness ==
    /\ DrewRegistered
    /\ shapeName = "circle"
    /\ glCalls[Len(glCalls)].args = <<"TRIANGLE_FAN", 0, 52>>

\* C5: drawShape called with a name that has no entry in the shapes table
\* returns without throwing and creates no buffer, uploads nothing, does not
\* clear the canvas and draws nothing.
C5_UnregisteredLeavesGLUntouched ==
    (pc = "done" /\ shapeName \notin DOMAIN shapes) =>
        /\ error = "none"
        /\ Calls("createBuffer") = {}
        /\ Calls("bufferData") = {}
        /\ Calls("clear") = {}
        /\ Calls("drawArrays") = {}

\* the name that is nowhere does take the early return
C5_TrulyAbsentName ==
    (pc = "done" /\ Not(Get(shapes, shapeName))) =>
        /\ error = "none"
        /\ Logged("Shape not found!")
        /\ glCalls[Len(glCalls)].op = "useProgram"

\* C6: after a failure of the bootstrap (context unavailable, a shader that
\* does not compile, a program that does not link) the script takes no later
\* setup step: no attachShader, linkProgram, useProgram, bufferData or
\* drawArrays follows the failure.  A failed compile is followed by
\* deleteShader, a failed link by deleteProgram.
C6_FailureStopsSetup ==
    \A i \in Calls("deleteShader") \cup Calls("deleteProgram") :
        \A j \in (i + 1)..Len(glCalls) :
            glCalls[j].op \notin {"attachShader", "linkProgram", "useProgram",
                                  "bufferData", "drawArrays"}

\* the failures that do end the script: no context, no link
C6_ThrownFailuresStop ==
    /\ (Logged("WebGL not supported in this browser!") \/ Logged("Error linking program:"))
          => pc = "threw"
    /\ pc = "threw" => (Calls("useProgram") = {} /\ Calls("drawArrays") = {})

\* C7: the index drawShape gives enableVertexAttribArray and
\* vertexAttribPointer is the value getAttribLocation(program, "aPosition")
\* returned in that call, and the pointer is 2 floats, stride 0, offset 0.
C7_AttribLocationUsed ==
    /\ \A i \in Calls("enableVertexAttribArray") :
          \E g \in Calls("getAttribLocation") :
              g < i /\ glCalls[i].args = <<glCalls[g].args[3]>>
    /\ \A i \in Calls("vertexAttribPointer") :
          \E g \in Calls("getAttribLocation") :
              g < i /\ glCalls[i].args = <<glCalls[g].args[3], 2, "FLOAT", FALSE, 0, 0>>

\* C8: in a run that reaches its end with a name of the table, one buffer is
\* created, written once and never deleted, and one drawArrays is issued,
\* after the link, useProgram, the upload, the attribute binding and the
\* clear.
C8_OneBufferOneDraw ==
    (DrewRegistered /\ error = "none") =>
        /\ Cardinality(Calls("createBuffer")) = 1
        /\ Cardinality(Calls("bufferData")) = 1
        /\ Calls("deleteBuffer") = {}
        /\ Calls("bufferSubData") = {}
        /\ Cardinality(Calls("drawArrays")) = 1
        /\ Cardinality(Calls("linkProgram")) = 1
        /\ Cardinality(Calls("useProgram")) = 1
        /\ Cardinality(Calls("vertexAttribPointer")) = 1
        /\ Cardinality(Calls("clear")) = 1
        /\ TheCall("linkProgram") < TheCall("useProgram")
        /\ TheCall("useProgram") < TheCall("createBuffer")
        /\ TheCall("createBuffer") < TheCall("bufferData")
        /\ TheCall("bufferData") < TheCall("vertexAttribPointer")
        /\ TheCall("vertexAttribPointer") < TheCall("clear")
        /\ TheCall("clear") < TheCall("drawArrays")
        /\ glCalls[TheCall("bufferData")].args[2] = shapes[shapeName].data

C8_Witness ==
    /\ DrewRegistered
    /\ error = "none"
    /\ shapeName = "polygon"
    /\ Calls("drawArrays") # {}

\* a coordinate that is a multiple of 1/2, in halves
Halves(x) == IF x.m = <<>> THEN 0 ELSE (1 - 2 * x.s) * x.m[1] * 2^(x.e + 1)

PointInHalves(seq, j) == <<Halves(seq[2 * j + 1]), Halves(seq[2 * j + 2])>>

\* twice the signed area of a triangle, positive when counter-clockwise
SignedArea2(a, b, c) ==
    (b[1] - a[1]) * (c[2] - a[2]) - (c[1] - a[1]) * (b[2] - a[2])

\* C9: triangle is exactly (0, 0.5), (-0.5, -0.5), (0.5, -0.5); rectangle is
\* exactly 6 points, two counter-clockwise triangles with corners in
\* {-0.5, 0.5} x {-0.5, 0.5} that together cover the square of half-extent
\* 0.5 about the origin; line is exactly (-0.5, 0), (0.5, 0); every
\* coordinate lies in [-1, 1].
C9_ShapeConstants ==
    pc \notin {"import", "idle"} =>
        LET t  == shapes.triangle.data
            r  == shapes.rectangle.data
            l  == shapes.line.data
            p  == [j \in 0..5 |-> PointInHalves(r, j)]
            corners == {<<-1, -1>>, <<1, -1>>, <<1, 1>>, <<-1, 1>>}
            first   == {p[0], p[1], p[2]}
            second  == {p[3], p[4], p[5]}
        IN  /\ Len(t) = 6
            /\ <<PointInHalves(t, 0), PointInHalves(t, 1), PointInHalves(t, 2)>>
                  = <<<<0, 1>>, <<-1, -1>>, <<1, -1>>>>
            /\ Len(r) = 12
            /\ \A j \in 0..5 : p[j] \in corners
            \* each triangle counter-clockwise, of half the square's area
            \* (the square has side 2 in halves: twice its half is 4)
            /\ SignedArea2(p[0], p[1], p[2]) = 4
            /\ SignedArea2(p[3], p[4], p[5]) = 4
            \* the two share a diagonal and together use all four corners
            /\ Cardinality(first \cap second) = 2
            /\ first \cup second = corners
            /\ Len(l) = 4
            /\ <<PointInHalves(l, 0), PointInHalves(l, 1)>> = <<<<-1, 0>>, <<1, 0>>>>
            /\ \A seq \in {t, r, l} : \A j \in 1..Len(seq) :
                  /\ seq[j].k = "num"
                  /\ seq[j].e >= -1
                  /\ Halves(seq[j]) \in (0 - 2)..2

C9_Witness ==
    /\ pc = "done"
    /\ shapeName = "rectangle"
    /\ Len(shapes.rectangle.data) = 12

====
